---- MODULE Spec2Model ----
(***************************************************************************)
(* Model of backend/services/chunking.service.js (class ChunkingService):  *)
(* chunkText, semanticChunk, configurableChunk, estimateChunks and         *)
(* createChunkedDocuments.                                                 *)
(*                                                                         *)
(* A text is a sequence of one-character strings.  An option that the     *)
(* caller may leave out is a sequence of length 0 (absent) or 1 (present). *)
(* Each initial state is one call: the operation called and its arguments. *)
(* semanticChunk and estimateChunks are straight-line code and are one     *)
(* action each; the while loop of configurableChunk is one action per      *)
(* iteration, so that a call that never leaves the loop is a behaviour of  *)
(* the model.                                                              *)
(***************************************************************************)
EXTENDS Integers, Sequences, FiniteSets, TLC

VARIABLES
    op,           \* the method called on the service
    text,         \* argument text
    options,      \* argument options: [mode, chunkSize, overlap]
    baseId,       \* argument baseId of createChunkedDocuments
    baseMetadata, \* argument baseMetadata of createChunkedDocuments
    pc,           \* position of the call
    strategy,     \* branch taken by chunkText: "none", "semantic", "configurable"
    chunkSize,    \* local chunkSize of configurableChunk / estimateChunks
    overlap,      \* local overlap of configurableChunk / estimateChunks
    startIndex,   \* local startIndex of configurableChunk
    chunkIndex,   \* local chunkIndex of configurableChunk
    chunks,       \* local chunks of configurableChunk; result of chunkText
    windows,      \* history: [start, end] of every loop iteration, in order
    estimate,     \* result of estimateChunks (sequence of length 0 or 1)
    documents,    \* result of createChunkedDocuments
    log           \* history: the chunkText calls that returned earlier on the
                  \* shared instance, [text, options, result]

(* The analytics routes of the backend (routes/chroma.routes.js as listed in   *)
(* PROGRESS.md): the cache, the clock, and the overview requests in flight.  *)
VARIABLES
    now,            \* Date.now()
    ticks,          \* number of clock steps taken
    analyticsCache, \* [data, timestamp, expiresAt], each null (Absent) or set
    reqs,           \* per overview request: [pc, refresh, upstream, cleared]
    lastResponse    \* the response sent last

cacheVars == <<now, ticks, analyticsCache, reqs, lastResponse>>

(* LoggingService (services/logging.service.js): the store and the value    *)
(* returned last, with the counts the claims speak of.                       *)
VARIABLES
    logs,            \* this.logs, newest first
    logSeq,          \* number of log calls made so far
    logsSinceClear,  \* number of log calls since the store was last emptied
    logCalls,        \* number of calls followed
    logReturn        \* the value the last call returned

loggingVars == <<logs, logSeq, logsSinceClear, logCalls, logReturn>>

(* The per-collection loop of GET /api/analytics/overview.                   *)
VARIABLES
    listing,          \* collections: the names the upstream listing returned
    listed,           \* how each listDocuments call made so far settled
    collectionStats,  \* collectionStats
    statsPc,          \* "loop", then "done"
    overview          \* responseData, once computed

statsVars == <<listing, listed, collectionStats, statsPc, overview>>

(* CustomChromaService.batchAddDocuments: one call.                          *)
VARIABLES
    batchDocs,     \* documents
    batchPc,       \* "loop", "awaiting", "returned" or "thrown"
    batchPos,      \* position of the loop in documents
    attempts,      \* the addOrUpdateDocument calls made, in order
    results,       \* results
    errors,        \* errors
    batchReturn    \* the value returned

batchVars == <<batchDocs, batchPc, batchPos, attempts, results, errors, batchReturn>>

(* POST /api/chroma/collections/:name/documents/url-fetch: one request.      *)
VARIABLES
    fetchReq,           \* the fields of req.body the route reads
    fetched,            \* fetchResult
    fetchPc,            \* "start", "fetching", "chunking", "adding", "responded"
    documentsToCreate,  \* documentsToCreate
    sent,               \* the documents batchAddDocuments sends to the database
    fetchResponse       \* the response of the route

fetchVars == <<fetchReq, fetched, fetchPc, documentsToCreate, sent, fetchResponse>>

afterBatchVars == <<fetchVars>>

afterStatsVars == <<batchVars, afterBatchVars>>

afterLoggingVars == <<statsVars, afterStatsVars>>

otherVars == <<loggingVars, afterLoggingVars>>

vars == <<op, text, options, baseId, baseMetadata, pc, strategy, chunkSize,
          overlap, startIndex, chunkIndex, chunks, windows, estimate, documents,
          log, cacheVars, otherVars>>

---------------------------------------------------------------------------
(* Bounds of the model *)

MaxLen == 4          \* longest text
MaxChunkSize == 3    \* largest chunkSize a caller supplies
MaxOverlap == 2      \* largest overlap a caller supplies
MaxIter == 6         \* loop iterations followed per call
MaxCalls == 3        \* calls made one after the other on the shared instance
MaxTicks == 2        \* clock steps followed
MaxLogCalls == 3     \* calls of LoggingService followed
MaxCollections == 2  \* collections in the upstream listing
MaxBatch == 2        \* documents in a batch

(* Program constants *)

DefaultChunkSize == 500
DefaultOverlap == 50
maxLogs == 10000

---------------------------------------------------------------------------
(* Inputs *)

Alphabet == {"a", " ", "\n"}
Whitespace == {" ", "\n"}

Texts == UNION {[1..n -> Alphabet] : n \in 0..MaxLen}

Absent == <<>>
Some(v) == <<v>>

Modes == {Absent, Some("semantic"), Some("configurable"), Some("other")}
ChunkSizes == {Absent} \cup {Some(n) : n \in 1..MaxChunkSize}
\* the service does not validate its options: -1 stands for an overlap
\* outside the documented domain (a non-negative integer)
Overlaps == {Absent} \cup {Some(n) : n \in (-1)..MaxOverlap}

OptionSets == [mode : Modes, chunkSize : ChunkSizes, overlap : Overlaps]

\* one more call of estimateChunks, with a long text: a text of length 1000
\* and {mode: "configurable", chunkSize: 500, overlap: 50}
LongText == [i \in 1..1000 |-> "a"]
LongTextOptions == [mode |-> Some("configurable"), chunkSize |-> Some(500),
                    overlap |-> Some(50)]

Ops == {"chunkText", "estimateChunks", "createChunkedDocuments"}

\* a base id is a string, kept as its characters
BaseIds == {<<"d", "o", "c", "1">>}
LineageFields == {"parent_doc_id", "chunk_index", "total_chunks", "chunk_mode"}
BaseMetadatas == {[f \in {} |-> "v"],
                  [f \in {"source"} |-> "test"],
                  [f \in {"source", "chunk_mode"} |-> "test"]}

---------------------------------------------------------------------------
(* JavaScript primitives used by the service *)

Min(a, b) == IF a <= b THEN a ELSE b
Max(a, b) == IF a >= b THEN a ELSE b

\* options.x || d for a string option: absent and "" are falsy
OrDefaultStr(opt, d) == IF opt = Absent \/ opt[1] = "" THEN d ELSE opt[1]

\* options.x || d for a numeric option: absent and 0 are falsy
OrDefaultNum(opt, d) == IF opt = Absent \/ opt[1] = 0 THEN d ELSE opt[1]

\* String.prototype.trim
Trim(s) ==
    LET keep == {i \in 1..Len(s) : s[i] \notin Whitespace}
    IN  IF keep = {} THEN <<>>
        ELSE LET lo == CHOOSE i \in keep : \A j \in keep : i <= j
                 hi == CHOOSE i \in keep : \A j \in keep : i >= j
             IN  SubSeq(s, lo, hi)

\* String.prototype.substring(a, b): both ends clamped to 0..length, then
\* swapped when a > b; positions are 0-based, b exclusive
Substring(s, a, b) ==
    LET ca == Max(0, Min(a, Len(s)))
        cb == Max(0, Min(b, Len(s)))
    IN  SubSeq(s, Min(ca, cb) + 1, Max(ca, cb))

\* mutant of IsBlank: the test for whitespace-only text left out
IsBlankEmptyOnly(s) == Len(s) = 0

\* !text || text.trim().length === 0
IsBlank(s) == Len(s) = 0 \/ Len(Trim(s)) = 0

\* end of the run of newlines that starts at position i
RECURSIVE RunEnd(_, _)
RunEnd(s, i) == IF i + 1 <= Len(s) /\ s[i + 1] = "\n" THEN RunEnd(s, i + 1) ELSE i

\* mutant of SplitFrom: splits on /\n+/, a single newline already separates
RECURSIVE SplitFromEveryNewline(_, _, _, _)
SplitFromEveryNewline(s, i, cur, acc) ==
    IF i > Len(s) THEN Append(acc, cur)
    ELSE IF s[i] = "\n"
         THEN SplitFromEveryNewline(s, RunEnd(s, i) + 1, <<>>, Append(acc, cur))
         ELSE SplitFromEveryNewline(s, i + 1, Append(cur, s[i]), acc)

\* text.split(/\n\n+/): scan left to right; a match starts at the first
\* position with two newlines in a row and takes the whole run
RECURSIVE SplitFrom(_, _, _, _)
SplitFrom(s, i, cur, acc) ==
    IF i > Len(s) THEN Append(acc, cur)
    ELSE IF s[i] = "\n" /\ i + 1 <= Len(s) /\ s[i + 1] = "\n"
         THEN SplitFrom(s, RunEnd(s, i) + 1, <<>>, Append(acc, cur))
         ELSE SplitFrom(s, i + 1, Append(cur, s[i]), acc)

SplitParagraphs(s) == SplitFrom(s, 1, <<>>, <<>>)

\* paragraphs.filter(p => p.length > 0)
RECURSIVE FilterNonEmpty(_)
FilterNonEmpty(q) ==
    IF q = <<>> THEN <<>>
    ELSE IF Len(Head(q)) > 0 THEN <<Head(q)>> \o FilterNonEmpty(Tail(q))
         ELSE FilterNonEmpty(Tail(q))

\* mutant of FilterNonBlank: the trim left out of the predicate
FilterNonBlankNoTrim(q) == FilterNonEmpty(q)

\* paragraphs.filter(p => p.trim().length > 0)
RECURSIVE FilterNonBlank(_)
FilterNonBlank(q) ==
    IF q = <<>> THEN <<>>
    ELSE IF Len(Trim(Head(q))) > 0 THEN <<Head(q)>> \o FilterNonBlank(Tail(q))
         ELSE FilterNonBlank(Tail(q))

\* mutant of CeilDiv: Math.floor in the place of Math.ceil
FloorDiv(a, b) ==
    LET n == IF b < 0 THEN -a ELSE a
        d == IF b < 0 THEN -b ELSE b
    IN  IF n >= 0 THEN n \div d ELSE -((-n + d - 1) \div d)

\* Math.ceil(a / b) for integers a, b with b # 0
CeilDiv(a, b) ==
    LET n == IF b < 0 THEN -a ELSE a
        d == IF b < 0 THEN -b ELSE b
    IN  IF n >= 0 THEN (n + d - 1) \div d ELSE -((-n) \div d)

---------------------------------------------------------------------------
(* The methods of ChunkingService *)

\* const mode = options.mode || 'configurable'
ModeOf(o) == OrDefaultStr(o.mode, "configurable")

\* semanticChunk(text)
SemanticChunk(s) ==
    IF IsBlank(s) THEN <<>>
    ELSE LET parts == SplitParagraphs(s)
             trimmed == [i \in 1..Len(parts) |-> Trim(parts[i])]
             paragraphs == FilterNonEmpty(trimmed)
         IN  IF Len(paragraphs) = 0
             THEN <<[text |-> Trim(s), index |-> 0]>>
             ELSE [i \in 1..Len(paragraphs) |-> [text |-> paragraphs[i], index |-> i - 1]]

\* mutant of Dispatch: the test made on 'configurable', semantic the fallback
DispatchSemanticByDefault(o) ==
    IF ModeOf(o) = "configurable" THEN "configurable" ELSE "semantic"

\* chunkText(text, options): the branch taken on mode
Dispatch(o) == IF ModeOf(o) = "semantic" THEN "semantic" ELSE "configurable"

\* const chunkSize = options.chunkSize || 500
ChunkSizeOf(o) == OrDefaultNum(o.chunkSize, DefaultChunkSize)

\* const overlap = options.overlap || 50
OverlapOf(o) == OrDefaultNum(o.overlap, DefaultOverlap)

\* const endIndex = Math.min(startIndex + chunkSize, text.length)
WindowEnd(start, size, length) == Min(start + size, length)

\* mutant of NextStart: the next window starts one character late
NextStartOffByOne(endIndex, ov) == endIndex - ov + 1

\* startIndex = endIndex - overlap
NextStart(endIndex, ov) == endIndex - ov

\* mutant of NewChunks: the array kept on the instance and used again
ReusedChunks(prev) == prev

\* const chunks = []: a new array in every call, whatever an earlier call left
NewChunks(prev) == <<>>

\* chunks.push({text: chunkText.trim(), index: chunkIndex}) when the window
\* does not trim to empty
PushChunk(cs, piece, idx) ==
    IF Len(Trim(piece)) > 0 THEN Append(cs, [text |-> Trim(piece), index |-> idx]) ELSE cs

\* mutant of BumpIndex: chunkIndex++ moved out of the if
BumpIndexAlways(piece, idx) == idx + 1

\* chunkIndex++ under the same condition
BumpIndex(piece, idx) == IF Len(Trim(piece)) > 0 THEN idx + 1 ELSE idx

\* estimateChunks(text, options)
EstimateChunks(s, o) ==
    IF IsBlank(s) THEN 0
    ELSE IF ModeOf(o) = "semantic"
         THEN Max(1, Len(FilterNonBlank(SplitParagraphs(s))))
         ELSE LET size == ChunkSizeOf(o)
                  ov == OverlapOf(o)
                  step == size - ov
              IN  IF Len(s) <= size THEN 1
                  ELSE IF step = 0 THEN "Infinity"
                       ELSE CeilDiv(Len(s) - size, step) + 1

\* chunk_mode: options.mode || 'configurable'
ChunkModeField(o) == OrDefaultStr(o.mode, "configurable")

\* the decimal digits of a natural number, as a template literal prints it
Digit(d) == CASE d = 0 -> "0" [] d = 1 -> "1" [] d = 2 -> "2" [] d = 3 -> "3"
              [] d = 4 -> "4" [] d = 5 -> "5" [] d = 6 -> "6" [] d = 7 -> "7"
              [] d = 8 -> "8" [] d = 9 -> "9"

RECURSIVE Decimal(_)
Decimal(n) == IF n < 10 THEN <<Digit(n)>> ELSE Decimal(n \div 10) \o <<Digit(n % 10)>>

ChunkInfix == <<"_", "c", "h", "u", "n", "k", "_">>

\* `${baseId}_chunk_${index + 1}` with index + 1 = i
ChunkId(id, i) == id \o ChunkInfix \o Decimal(i)

\* { ...baseMetadata, parent_doc_id, chunk_index, total_chunks, chunk_mode }:
\* the fields of baseMetadata first, the four lineage fields written after
LineageMetadata(id, o, meta, cs, i) ==
    [k \in (DOMAIN meta) \cup LineageFields |->
        IF k = "parent_doc_id" THEN Some(id)
        ELSE IF k = "chunk_index" THEN Some(i)
        ELSE IF k = "total_chunks" THEN Some(Len(cs))
        ELSE IF k = "chunk_mode" THEN Some(ChunkModeField(o))
        ELSE Some(meta[k])]

\* mutant of ChunkedDocument: the id built from the 0-based index
ChunkedDocumentZeroBased(id, o, meta, cs, i) ==
    [id |-> ChunkId(id, i - 1),
     text |-> cs[i].text,
     metadata |-> LineageMetadata(id, o, meta, cs, i)]

\* mutant of ChunkedDocument: ...baseMetadata spread after the lineage fields
ChunkedDocumentBaseWins(id, o, meta, cs, i) ==
    [id |-> ChunkId(id, i),
     text |-> cs[i].text,
     metadata |-> [k \in (DOMAIN meta) \cup LineageFields |->
                     IF k \in DOMAIN meta THEN Some(meta[k])
                     ELSE LineageMetadata(id, o, meta, cs, i)[k]]]

\* the object createChunkedDocuments builds for chunks[i]
ChunkedDocument(id, o, meta, cs, i) ==
    [id |-> ChunkId(id, i),
     text |-> cs[i].text,
     metadata |-> LineageMetadata(id, o, meta, cs, i)]

\* mutant of MapChunks: totalChunks one too small, the last chunk left out
MapChunksDropLast(id, o, meta, cs) ==
    [i \in 1..(Len(cs) - 1) |-> ChunkedDocument(id, o, meta, cs, i)]

\* chunks.map((chunk, index) => ...) with index + 1 = i
MapChunks(id, o, meta, cs) == [i \in 1..Len(cs) |-> ChunkedDocument(id, o, meta, cs, i)]

---------------------------------------------------------------------------
(* The analytics cache *)

Requests == {"r1", "r2"}

\* let analyticsCache = { data: null, timestamp: null, expiresAt: null }
EmptyCache == [data |-> Absent, timestamp |-> Absent, expiresAt |-> Absent]

\* const CACHE_DURATION_MS = 5 * 60 * 60 * 1000
CACHE_DURATION_MS == 5 * 60 * 60 * 1000

\* the amounts by which the clock moves between two events
ClockSteps == {1, CACHE_DURATION_MS - 1}

\* req.query.refresh: not given, 'true', or another value
RefreshParams == {Absent, Some("true"), Some("1")}

\* outcomes of await chromaService.listCollections()
ListOutcomes == {"success", "failure", "throws"}

\* the fields of the JSON bodies the analytics routes send, with the status;
\* req, at, refresh and upstream record which overview request was answered,
\* when, with which refresh parameter and after how many upstream calls;
\* dropped records that a clear found data in the cache
NoResponse ==
    [route |-> "none", req |-> "none", status |-> 0, success |-> FALSE,
     cached |-> FALSE, data |-> Absent, cacheTimestamp |-> Absent,
     cacheExpiresAt |-> Absent, valid |-> FALSE, remainingTimeMs |-> 0,
     error |-> "", at |-> 0, refresh |-> Absent, upstream |-> 0,
     dropped |-> FALSE]

\* a request slot; cleared records that a cache clear was answered while the
\* request was reading the upstream
IdleRequest ==
    [pc |-> "idle", refresh |-> Absent, upstream |-> 0, cleared |-> FALSE]

\* the routes of the backend other than the three analytics cache routes
OtherRoutes ==
    {"collections/create", "collections/rename", "collections/delete",
     "documents/add", "documents/delete", "import", "query"}

\* !x for a value that is null or a number
Falsy(x) == x = Absent \/ x = Some(0)

\* mutant of IsCacheValid: the entry still served at the instant it expires
IsCacheValidInclusive(cache, t) ==
    IF cache.data = Absent \/ Falsy(cache.expiresAt) THEN FALSE
    ELSE t <= cache.expiresAt[1]

\* isCacheValid(), with t the reading of Date.now()
IsCacheValid(cache, t) ==
    IF cache.data = Absent \/ Falsy(cache.expiresAt) THEN FALSE
    ELSE t < cache.expiresAt[1]

\* mutant of SetCache: the entry stored without its expiry
SetCacheWithoutExpiry(data, t) ==
    [data |-> Some(data), timestamp |-> Some(t), expiresAt |-> Absent]

\* setCache(data), with t the reading of Date.now()
SetCache(data, t) ==
    [data |-> Some(data), timestamp |-> Some(t), expiresAt |-> Some(t + CACHE_DURATION_MS)]

\* mutant of ClearCache: only the data dropped
ClearCacheDataOnly(cache) == [cache EXCEPT !.data = Absent]

\* clearCache()
ClearCache(cache) == EmptyCache

\* mutant of CacheAfterFailure: a failed listing empties the cache
CacheDroppedOnFailure(cache) == EmptyCache

\* the cache after the 500 answers of the overview route: neither return
\* path writes it
CacheAfterFailure(cache) == cache

\* the responseData an overview computation builds: which request read the
\* upstream, and whether a clear was answered between the beginning of the
\* reading and the storing
ResponseData(r, cleared) == [by |-> r, preClear |-> cleared]

\* the body of the cached answer of GET /api/analytics/overview
CachedOverview(r, q, cache, t) ==
    [NoResponse EXCEPT !.route = "overview", !.req = r, !.status = 200,
                       !.success = TRUE, !.cached = TRUE, !.data = cache.data,
                       !.cacheTimestamp = cache.timestamp,
                       !.cacheExpiresAt = cache.expiresAt,
                       !.at = t, !.refresh = q]

\* the body of the computed answer, read from the cache just written
ComputedOverview(r, q, data, cache, t, n) ==
    [NoResponse EXCEPT !.route = "overview", !.req = r, !.status = 200,
                       !.success = TRUE, !.cached = FALSE, !.data = Some(data),
                       !.cacheTimestamp = cache.timestamp,
                       !.cacheExpiresAt = cache.expiresAt,
                       !.at = t, !.refresh = q, !.upstream = n]

\* the two 500 answers of the overview route
FailedOverview(r, q, msg) ==
    [NoResponse EXCEPT !.route = "overview", !.req = r, !.status = 500, !.error = msg,
                       !.refresh = q]

\* the server after start-up, at clock reading 1
CacheAtStart ==
    /\ now = 1
    /\ ticks = 0
    /\ analyticsCache = EmptyCache
    /\ reqs = [r \in Requests |-> IdleRequest]
    /\ lastResponse = NoResponse

---------------------------------------------------------------------------
(* LoggingService *)

LogLevels == {"info", "error"}
LogMessages == {<<"m">>}

\* 'Logs cleared'
LogsClearedMessage == <<"L", "o", "g", "s", " ", "c", "l", "e", "a", "r", "e", "d">>

\* a log entry: seq stands for its id and timestamp (the order of the log
\* calls), count for metadata.count
LogEntry(seq, level, message, count) ==
    [seq |-> seq, level |-> level, message |-> message, count |-> count]

\* a store that k log calls on a new instance have filled
Prefilled(k) == [i \in 1..k |-> LogEntry(k + 1 - i, "info", <<"m">>, Absent)]

\* the sizes of the store at the beginning of a run
InitialSizes == {0, maxLogs - 1, maxLogs}

NoReturn ==
    [op |-> "none", success |-> FALSE, message |-> <<>>, total |-> 0,
     byLevel |-> [l \in {"info", "warn", "error", "debug"} |-> 0],
     oldest |-> Absent, newest |-> Absent]

\* mutant of Unshifted: no rotation
UnshiftedNoRotation(store, entry) == <<entry>> \o store

\* this.logs.unshift(logEntry); if (this.logs.length > this.maxLogs) this.logs.pop()
Unshifted(store, entry) ==
    LET added == <<entry>> \o store
    IN  IF Len(added) > maxLogs THEN SubSeq(added, 1, Len(added) - 1) ELSE added

\* mutant of ClearedStore: the notice logged before the store is emptied
ClearedStoreEmpty(store, notice) == <<>>

\* this.logs = []; this.info('Logs cleared', { count })
ClearedStore(store, notice) == Unshifted(<<>>, notice)

\* `Cleared ${count} logs`
ClearedMessage(count) ==
    <<"C", "l", "e", "a", "r", "e", "d", " ">> \o Decimal(count) \o <<" ", "l", "o", "g", "s">>

\* the value of getStats()
Stats(store) ==
    [NoReturn EXCEPT
        !.op = "getStats",
        !.total = Len(store),
        !.byLevel = [l \in {"info", "warn", "error", "debug"} |->
                        Cardinality({i \in 1..Len(store) : store[i].level = l})],
        !.oldest = IF Len(store) > 0 THEN Some(store[Len(store)].seq) ELSE Absent,
        !.newest = IF Len(store) > 0 THEN Some(store[1].seq) ELSE Absent]

\* a new instance: constructor()
LoggingAtStart ==
    /\ logs = <<>>
    /\ logSeq = 0
    /\ logsSinceClear = 0
    /\ logCalls = 0
    /\ logReturn = NoReturn

---------------------------------------------------------------------------
(* The overview statistics *)

CollectionNames == {"c1", "c2", "c3"}

\* the listings without repeated names
Listings ==
    {q \in UNION {[1..n -> CollectionNames] : n \in 0..MaxCollections} :
        \A i, j \in 1..Len(q) : i # j => q[i] # q[j]}

\* how await chromaService.listDocuments(collectionName, {}) settles:
\* success with data.ids of 0, 1 or 2 documents, success with a body without
\* ids, success with a null body, or { success: false } when the HTTP call
\* failed (listDocuments catches and never throws)
ListDocumentsOutcomes == {"ids0", "ids1", "ids2", "noIds", "nullData", "failure"}

IdsCount(outcome) == CASE outcome = "ids0" -> 0 [] outcome = "ids1" -> 1 [] outcome = "ids2" -> 2

\* the entries pushed on collectionStats
StatsEntry(name, count, error) == [name |-> name, documentCount |-> count, error |-> error]

\* one turn of the loop: the try block pushes an entry when docsResult.success
\* && docsResult.data.ids, reading data.ids of a null body throws and the catch
\* pushes the error entry, and nothing is pushed otherwise
AfterListDocuments(stats, name, outcome) ==
    IF outcome \in {"ids0", "ids1", "ids2"}
    THEN Append(stats, StatsEntry(name, IdsCount(outcome), FALSE))
    ELSE IF outcome = "nullData"
    THEN Append(stats, StatsEntry(name, 0, TRUE))
    ELSE stats

\* inserts e after the entries whose documentCount is at least its own
RECURSIVE InsertByCount(_, _)
InsertByCount(sorted, e) ==
    IF sorted = <<>> THEN <<e>>
    ELSE IF sorted[1].documentCount >= e.documentCount
         THEN <<sorted[1]>> \o InsertByCount(Tail(sorted), e)
         ELSE <<e>> \o sorted

\* collectionStats.sort((a, b) => b.documentCount - a.documentCount)
RECURSIVE SortByCountDesc(_)
SortByCountDesc(q) ==
    IF q = <<>> THEN <<>>
    ELSE InsertByCount(SortByCountDesc(SubSeq(q, 1, Len(q) - 1)), q[Len(q)])

RECURSIVE SumCounts(_)
SumCounts(q) == IF q = <<>> THEN 0 ELSE q[1].documentCount + SumCounts(Tail(q))

\* the fields of responseData that the collections determine
ResponseStats(names, stats) ==
    LET IsEmpty(c) == c.documentCount = 0 /\ ~c.error
        IsError(c) == c.error
    IN  [totalCollections |-> Len(names),
         totalDocuments |-> SumCounts(stats),
         emptyCollections |-> Cardinality({i \in 1..Len(stats) : IsEmpty(stats[i])}),
         errorCollections |-> Cardinality({i \in 1..Len(stats) : IsError(stats[i])}),
         allCollections |-> SortByCountDesc(stats)]

\* no overview being computed
StatsAtStart ==
    /\ listing = <<>>
    /\ listed = <<>>
    /\ collectionStats = <<>>
    /\ statsPc = "done"
    /\ overview = Absent

---------------------------------------------------------------------------
(* batchAddDocuments *)

\* an element of the documents array that is null
Null == [null |-> TRUE, id |-> "", metadata |-> {}]

\* the documents: id is the value of the id field, metadata the field names of
\* the document's metadata object (none when it has no metadata)
BatchDocuments ==
    {Null} \cup {[null |-> FALSE, id |-> i, metadata |-> f] :
                    i \in {"d1", "d2"}, f \in {{}, {"source"}}}

BatchInputs == UNION {[1..n -> BatchDocuments] : n \in 0..MaxBatch}

\* the call addOrUpdateDocument(collectionName, documentToSend, idField,
\* metadataFields, {resource_id: documentToSend[idField], ...}) made for doc
Attempt(doc) == [id |-> doc.id, metadataFields |-> doc.metadata, resource_id |-> doc.id]

\* mutant of NextPosition: the loop left at the first failure
NextPositionStopOnFailure(pos, ok, n) == IF ok THEN pos + 1 ELSE n + 1

\* the for...of loop goes on to the next document whatever the result was
NextPosition(pos, ok, n) == pos + 1

\* the value batchAddDocuments returns
BatchResult(rs, es) ==
    [success |-> Len(es) = 0, successful |-> Len(rs), failed |-> Len(es),
     results |-> rs, errors |-> es]

\* no batch being added
BatchAtStart ==
    /\ batchDocs = <<>>
    /\ batchPc = "returned"
    /\ batchPos = 1
    /\ attempts = <<>>
    /\ results = <<>>
    /\ errors = <<>>
    /\ batchReturn = Absent

---------------------------------------------------------------------------
(* The url-fetch route and URLFetcherService *)

\* { ...f, ...g }
Spread(f, g) == [k \in (DOMAIN f) \cup (DOMAIN g) |-> IF k \in DOMAIN g THEN g[k] ELSE f[k]]

NoFields == [k \in {} |-> <<>>]

\* the chunkingOptions of a request: semantic, or left out
FetchChunkingOptions ==
    {[mode |-> Some("semantic"), chunkSize |-> Absent, overlap |-> Absent],
     [mode |-> Absent, chunkSize |-> Absent, overlap |-> Absent]}

\* the baseMetadata of a request; a value is a string, kept as its characters
FetchBaseMetadatas ==
    {NoFields, [k \in {"source"} |-> <<"t">>], [k \in {"text"} |-> <<"x">>]}

\* req.body: baseId may be missing
FetchRequests ==
    [baseId : {<<>>} \cup BaseIds, enableChunking : BOOLEAN,
     chunkingOptions : FetchChunkingOptions, baseMetadata : FetchBaseMetadatas]

\* the bodies fetched as plain text
FetchedBodies == {<<>>, <<" ">>, <<"a">>, <<"a", "\n", "\n", "a">>}

\* the records csv-parse returns, each with its text column
CsvRecordLists == {<<>>, <<<<"a">>>>, <<<<"a">>, <<"a", "a">>>>}

NoFetchResult ==
    [success |-> FALSE, type |-> "none", text |-> <<>>, documents |-> <<>>,
     metadata |-> NoFields]

\* the fields fetchURL adds to the metadata of every result
FetchedMetadata(docType) ==
    [k \in {"doc_type", "source_url", "content_type"} |->
        IF k = "doc_type" THEN docType ELSE <<"u">>]

\* parsePlainText(text), with the metadata fetchURL adds
ParsePlainText(body) ==
    [success |-> TRUE, type |-> "text", text |-> Trim(body),
     documents |-> <<[text |-> Trim(body), metadata |-> NoFields]>>,
     metadata |-> FetchedMetadata(<<"t", "e", "x", "t">>)]

\* parseCSV(csv) for the records the parser returned: no records give text ''
\* and no documents, otherwise a document per row and the raw csv as text
ParseCSV(records) ==
    [success |-> TRUE, type |-> "csv",
     text |-> IF Len(records) = 0 THEN <<>> ELSE <<"t", "e", "x", "t", "\n", "a">>,
     documents |-> [i \in 1..Len(records) |->
                      [text |-> records[i],
                       metadata |-> [k \in {"text", "row_index"} |->
                                       IF k = "text" THEN records[i] ELSE i]]],
     metadata |-> FetchedMetadata(<<"c", "s", "v">>)]

\* the values await urlFetcherService.fetchURL(url, ...) resolves to
FetchResults ==
    {NoFetchResult}
       \cup {ParsePlainText(b) : b \in FetchedBodies}
       \cup {ParseCSV(rs) : rs \in CsvRecordLists}

RowInfix == <<"_", "r", "o", "w", "_">>

\* the CSV branch: fetchResult.documents.map(...)
RowDocuments(req, result) ==
    [i \in 1..Len(result.documents) |->
        [id |-> req.baseId \o RowInfix \o Decimal(i),
         text |-> result.documents[i].text,
         metadata |-> Spread(Spread(req.baseMetadata, result.documents[i].metadata),
                             result.metadata)]]

\* the branch without chunking: one document with the full text
SingleDocument(req, result) ==
    <<[id |-> req.baseId, text |-> result.text,
       metadata |-> Spread(req.baseMetadata, result.metadata)]>>

\* chunkedDocs.map(doc => ({id: doc.id, text: doc.metadata.text || doc.text,
\* metadata: doc.metadata})), the metadata values taken out of their wrapping
FromChunkedDocuments(chunkedDocs) ==
    [i \in 1..Len(chunkedDocs) |->
        LET doc == chunkedDocs[i]
            meta == [k \in DOMAIN doc.metadata |-> doc.metadata[k][1]]
        IN  [id |-> doc.id,
             text |-> IF "text" \in DOMAIN meta /\ meta["text"] # <<>>
                      THEN meta["text"] ELSE doc.text,
             metadata |-> meta]]

\* what batchAddDocuments sends for doc: the fields of the document, and over
\* them the fields of its metadata object
DocumentToSend(doc) ==
    LET meta == doc.metadata
    IN  [id |-> IF "id" \in DOMAIN meta THEN meta["id"] ELSE doc.id,
         text |-> IF "text" \in DOMAIN meta THEN meta["text"] ELSE doc.text,
         metadataFields |-> DOMAIN meta]

SentDocuments(docs) == [i \in 1..Len(docs) |-> DocumentToSend(docs[i])]

NoFetchResponse == [status |-> 0, success |-> FALSE, error |-> "", documentsCreated |-> 0]

RequiredError == "Collection name, URL, and base ID are required"
NoContentError == "No content to create documents from"

\* no url-fetch request being served
FetchAtStart ==
    /\ fetchReq = [baseId |-> <<>>, enableChunking |-> FALSE,
                   chunkingOptions |-> [mode |-> Absent, chunkSize |-> Absent,
                                        overlap |-> Absent],
                   baseMetadata |-> NoFields]
    /\ fetched = NoFetchResult
    /\ fetchPc = "responded"
    /\ documentsToCreate = <<>>
    /\ sent = Absent
    /\ fetchResponse = NoFetchResponse

AfterStatsAtStart == BatchAtStart /\ FetchAtStart

AfterLoggingAtStart == StatsAtStart /\ AfterStatsAtStart

OthersAtStart == LoggingAtStart /\ AfterLoggingAtStart

\* no call of ChunkingService in progress
ChunkingAtRest ==
    /\ op = "chunkText"
    /\ text = <<>>
    /\ options = [mode |-> Absent, chunkSize |-> Absent, overlap |-> Absent]
    /\ baseId \in BaseIds
    /\ baseMetadata = [f \in {} |-> "v"]
    /\ pc = "done"
    /\ strategy = "none"
    /\ chunkSize = 0
    /\ overlap = 0
    /\ startIndex = 0
    /\ chunkIndex = 0
    /\ chunks = <<>>
    /\ windows = <<>>
    /\ estimate = Absent
    /\ documents = <<>>
    /\ log = <<>>

---------------------------------------------------------------------------
(* The state machine *)

Init ==
    /\ op \in Ops
    /\ \/ (text \in Texts /\ options \in OptionSets)
       \/ (op = "estimateChunks" /\ text = LongText /\ options = LongTextOptions)
    /\ baseId \in BaseIds
    /\ baseMetadata \in BaseMetadatas
    /\ (op # "createChunkedDocuments" => baseMetadata = [f \in {} |-> "v"])
    /\ pc = "call"
    /\ strategy = "none"
    /\ chunkSize = 0
    /\ overlap = 0
    /\ startIndex = 0
    /\ chunkIndex = 0
    /\ chunks = <<>>
    /\ windows = <<>>
    /\ estimate = Absent
    /\ documents = <<>>
    /\ log = <<>>
    /\ CacheAtStart
    /\ OthersAtStart

inputs == <<op, text, options, baseId, baseMetadata>>

CallsChunkText == op \in {"chunkText", "createChunkedDocuments"}

\* chunkText -> semanticChunk
ChunkTextSemantic ==
    /\ pc = "call"
    /\ CallsChunkText
    /\ Dispatch(options) = "semantic"
    /\ strategy' = "semantic"
    /\ chunks' = SemanticChunk(text)
    /\ pc' = "returned"
    /\ UNCHANGED <<log, cacheVars, otherVars, inputs, chunkSize, overlap, startIndex, chunkIndex, windows,
                   estimate, documents>>

\* chunkText -> configurableChunk, up to the while loop
ConfigurableChunkEnter ==
    /\ pc = "call"
    /\ CallsChunkText
    /\ Dispatch(options) = "configurable"
    /\ strategy' = "configurable"
    /\ chunkSize' = ChunkSizeOf(options)
    /\ overlap' = OverlapOf(options)
    /\ chunks' = NewChunks(chunks)
    /\ startIndex' = 0
    /\ chunkIndex' = 0
    /\ pc' = IF IsBlank(text) THEN "returned" ELSE "loop"
    /\ UNCHANGED <<log, cacheVars, otherVars, inputs, windows, estimate, documents>>

\* one iteration of while (startIndex < text.length); the break of line 90
\* is the only exit once the loop is entered.  The run is followed for MaxIter
\* iterations.
LoopIteration ==
    /\ pc = "loop"
    /\ startIndex < Len(text)
    /\ Len(windows) < MaxIter
    /\ LET endIndex == WindowEnd(startIndex, chunkSize, Len(text))
           piece == Substring(text, startIndex, endIndex)
           next == NextStart(endIndex, overlap)
       IN  /\ chunks' = PushChunk(chunks, piece, chunkIndex)
           /\ chunkIndex' = BumpIndex(piece, chunkIndex)
           /\ startIndex' = next
           /\ windows' = Append(windows, [start |-> startIndex, end |-> endIndex])
           /\ pc' = IF next >= Len(text) THEN "returned" ELSE "loop"
    /\ UNCHANGED <<log, cacheVars, otherVars, inputs, strategy, chunkSize, overlap, estimate, documents>>

\* estimateChunks
EstimateChunksCall ==
    /\ pc = "call"
    /\ op = "estimateChunks"
    /\ estimate' = Some(EstimateChunks(text, options))
    /\ chunkSize' = IF IsBlank(text) \/ ModeOf(options) = "semantic"
                    THEN chunkSize ELSE ChunkSizeOf(options)
    /\ overlap' = IF IsBlank(text) \/ ModeOf(options) = "semantic"
                  THEN overlap ELSE OverlapOf(options)
    /\ pc' = "done"
    /\ UNCHANGED <<log, cacheVars, otherVars, inputs, strategy, startIndex, chunkIndex, chunks, windows, documents>>

\* createChunkedDocuments, after its call of chunkText has returned
CreateChunkedDocumentsMap ==
    /\ pc = "returned"
    /\ op = "createChunkedDocuments"
    /\ documents' = MapChunks(baseId, options, baseMetadata, chunks)
    /\ pc' = "done"
    /\ UNCHANGED <<log, cacheVars, otherVars, inputs, strategy, chunkSize, overlap, startIndex, chunkIndex,
                   chunks, windows, estimate>>

Next ==
    \/ ChunkTextSemantic
    \/ ConfigurableChunkEnter
    \/ LoopIteration
    \/ EstimateChunksCall
    \/ CreateChunkedDocumentsMap

Spec == Init /\ [][Next]_vars

---------------------------------------------------------------------------
(* Several calls of chunkText, one after the other, on the instance the      *)
(* module exports                                                            *)

SessionTexts == {<<>>, <<"a">>, <<"a", " ", "a">>}
SessionOptions ==
    {[mode |-> Some("semantic"), chunkSize |-> Absent, overlap |-> Absent],
     [mode |-> Some("configurable"), chunkSize |-> Some(2), overlap |-> Some(-1)],
     [mode |-> Absent, chunkSize |-> Some(2), overlap |-> Some(1)]}

SessionInit ==
    /\ op = "chunkText"
    /\ text \in SessionTexts
    /\ options \in SessionOptions
    /\ baseId \in BaseIds
    /\ baseMetadata = [f \in {} |-> "v"]
    /\ pc = "call"
    /\ strategy = "none"
    /\ chunkSize = 0
    /\ overlap = 0
    /\ startIndex = 0
    /\ chunkIndex = 0
    /\ chunks = <<>>
    /\ windows = <<>>
    /\ estimate = Absent
    /\ documents = <<>>
    /\ log = <<>>
    /\ CacheAtStart
    /\ OthersAtStart

\* the caller takes the value returned and calls chunkText again; the locals
\* of the call that returned are left as they were
NextCall ==
    /\ pc = "returned"
    /\ op = "chunkText"
    /\ Len(log) + 1 < MaxCalls
    /\ log' = Append(log, [text |-> text, options |-> options, result |-> chunks])
    /\ text' \in SessionTexts
    /\ options' \in SessionOptions
    /\ pc' = "call"
    /\ strategy' = "none"
    /\ windows' = <<>>
    /\ UNCHANGED <<cacheVars, otherVars, op, baseId, baseMetadata, chunkSize, overlap, startIndex,
                   chunkIndex, chunks, estimate, documents>>

SessionNext ==
    \/ ChunkTextSemantic
    \/ ConfigurableChunkEnter
    \/ LoopIteration
    \/ NextCall

SessionSpec == SessionInit /\ [][SessionNext]_vars

---------------------------------------------------------------------------
(* The analytics routes, served to requests that interleave at each await    *)

chunkingVars == <<op, text, options, baseId, baseMetadata, pc, strategy, chunkSize,
                  overlap, startIndex, chunkIndex, chunks, windows, estimate,
                  documents, log>>

CacheInit ==
    /\ op = "chunkText"
    /\ text = <<>>
    /\ options = [mode |-> Absent, chunkSize |-> Absent, overlap |-> Absent]
    /\ baseId \in BaseIds
    /\ baseMetadata = [f \in {} |-> "v"]
    /\ pc = "done"
    /\ strategy = "none"
    /\ chunkSize = 0
    /\ overlap = 0
    /\ startIndex = 0
    /\ chunkIndex = 0
    /\ chunks = <<>>
    /\ windows = <<>>
    /\ estimate = Absent
    /\ documents = <<>>
    /\ log = <<>>
    /\ CacheAtStart
    /\ OthersAtStart

\* GET /api/analytics/overview up to its first await: the cached answer, or
\* the call of chromaService.listCollections()
OverviewStart(r, q) ==
    /\ reqs[r].pc = "idle"
    /\ LET forceRefresh == q = Some("true")
       IN  IF ~forceRefresh /\ IsCacheValid(analyticsCache, now)
           THEN /\ lastResponse' = CachedOverview(r, q, analyticsCache, now)
                /\ UNCHANGED reqs
           ELSE /\ reqs' = [reqs EXCEPT ![r] =
                              [pc |-> "listCollections", refresh |-> q,
                               upstream |-> 1, cleared |-> FALSE]]
                /\ UNCHANGED lastResponse
    /\ UNCHANGED <<chunkingVars, otherVars, now, ticks, analyticsCache>>

\* listCollections() settles: 500 when it reports failure or throws, the
\* document listings otherwise
ListCollectionsDone(r, outcome) ==
    /\ reqs[r].pc = "listCollections"
    /\ IF outcome = "success"
       THEN /\ reqs' = [reqs EXCEPT ![r].pc = "listDocuments"]
            /\ UNCHANGED lastResponse
       ELSE /\ reqs' = [reqs EXCEPT ![r] = IdleRequest]
            /\ lastResponse' =
                  FailedOverview(r, reqs[r].refresh,
                                 IF outcome = "failure" THEN "Failed to fetch collections"
                                 ELSE "error.message")
    /\ analyticsCache' = IF outcome = "success" THEN analyticsCache
                         ELSE CacheAfterFailure(analyticsCache)
    /\ UNCHANGED <<chunkingVars, otherVars, now, ticks>>

\* the document listings settle (a failed one is caught and counted):
\* setCache(responseData), then the computed answer
OverviewFinish(r) ==
    /\ reqs[r].pc = "listDocuments"
    /\ LET data == ResponseData(r, reqs[r].cleared)
           cache == SetCache(data, now)
       IN  /\ analyticsCache' = cache
           /\ lastResponse' = ComputedOverview(r, reqs[r].refresh, data, cache, now,
                                               reqs[r].upstream + 1)
    /\ reqs' = [reqs EXCEPT ![r] = IdleRequest]
    /\ UNCHANGED <<chunkingVars, otherVars, now, ticks>>

\* POST /api/analytics/cache/clear
CacheClear ==
    /\ analyticsCache' = ClearCache(analyticsCache)
    /\ lastResponse' = [NoResponse EXCEPT !.route = "cache/clear", !.status = 200,
                                          !.success = TRUE, !.dropped = analyticsCache.data # Absent]
    /\ reqs' = [r \in Requests |->
                  IF reqs[r].pc = "idle" THEN reqs[r]
                  ELSE [reqs[r] EXCEPT !.cleared = TRUE]]
    /\ UNCHANGED <<chunkingVars, otherVars, now, ticks>>

\* GET /api/analytics/cache/status
CacheStatus ==
    /\ lastResponse' =
          [NoResponse EXCEPT !.route = "cache/status", !.status = 200, !.success = TRUE,
                             !.cached = analyticsCache.data # Absent,
                             !.cacheTimestamp = analyticsCache.timestamp,
                             !.cacheExpiresAt = analyticsCache.expiresAt,
                             !.valid = IsCacheValid(analyticsCache, now),
                             !.remainingTimeMs =
                                 IF Falsy(analyticsCache.expiresAt) THEN 0
                                 ELSE Max(0, analyticsCache.expiresAt[1] - now)]
    /\ UNCHANGED <<chunkingVars, otherVars, now, ticks, analyticsCache, reqs>>

\* any other route of the backend answers: none of them names analyticsCache
OtherRoute(k) ==
    /\ k \in OtherRoutes
    /\ lastResponse' = [NoResponse EXCEPT !.route = "other", !.status = 200, !.success = TRUE]
    /\ UNCHANGED <<chunkingVars, otherVars, now, ticks, analyticsCache, reqs>>

\* time passes
Tick(d) ==
    /\ ticks < MaxTicks
    /\ now' = now + d
    /\ ticks' = ticks + 1
    /\ UNCHANGED <<chunkingVars, otherVars, analyticsCache, reqs, lastResponse>>

CacheNext ==
    \/ \E r \in Requests, q \in RefreshParams : OverviewStart(r, q)
    \/ \E r \in Requests, outcome \in ListOutcomes : ListCollectionsDone(r, outcome)
    \/ \E r \in Requests : OverviewFinish(r)
    \/ CacheClear
    \/ CacheStatus
    \/ \E k \in OtherRoutes : OtherRoute(k)
    \/ \E d \in ClockSteps : Tick(d)

CacheSpec == CacheInit /\ [][CacheNext]_vars

---------------------------------------------------------------------------
(* Calls of LoggingService on the exported instance, beginning with a store  *)
(* that earlier log calls have filled                                        *)

LogInit ==
    /\ ChunkingAtRest
    /\ CacheAtStart
    /\ \E k \in InitialSizes :
          /\ logs = Prefilled(k)
          /\ logSeq = k
          /\ logsSinceClear = k
    /\ logCalls = 0
    /\ logReturn = NoReturn
    /\ AfterLoggingAtStart

\* log(level, message, metadata), also through info, warn, error and debug
LogCall(level, message) ==
    /\ logCalls < MaxLogCalls
    /\ LET entry == LogEntry(logSeq + 1, level, message, Absent)
       IN  /\ logs' = Unshifted(logs, entry)
           /\ logReturn' = [NoReturn EXCEPT !.op = "log", !.newest = Some(entry.seq)]
    /\ logSeq' = logSeq + 1
    /\ logsSinceClear' = logsSinceClear + 1
    /\ logCalls' = logCalls + 1
    /\ UNCHANGED <<chunkingVars, cacheVars, afterLoggingVars>>

\* clearLogs()
ClearLogs ==
    /\ logCalls < MaxLogCalls
    /\ LET count == Len(logs)
           notice == LogEntry(logSeq + 1, "info", LogsClearedMessage, Some(count))
       IN  /\ logs' = ClearedStore(logs, notice)
           /\ logReturn' = [NoReturn EXCEPT !.op = "clearLogs", !.success = TRUE,
                                            !.message = ClearedMessage(count)]
    /\ logSeq' = logSeq + 1
    /\ logsSinceClear' = 1
    /\ logCalls' = logCalls + 1
    /\ UNCHANGED <<chunkingVars, cacheVars, afterLoggingVars>>

\* getStats()
GetStats ==
    /\ logCalls < MaxLogCalls
    /\ logReturn' = Stats(logs)
    /\ logCalls' = logCalls + 1
    /\ UNCHANGED <<chunkingVars, cacheVars, afterLoggingVars, logs, logSeq, logsSinceClear>>

LogNext ==
    \/ \E level \in LogLevels, message \in LogMessages : LogCall(level, message)
    \/ ClearLogs
    \/ GetStats

LogSpec == LogInit /\ [][LogNext]_vars

---------------------------------------------------------------------------
(* One overview computation after its listing succeeded: the loop over the   *)
(* collections, one turn per listDocuments call, and the statistics          *)

StatsInit ==
    /\ ChunkingAtRest
    /\ CacheAtStart
    /\ LoggingAtStart
    /\ listing \in Listings
    /\ listed = <<>>
    /\ collectionStats = <<>>
    /\ statsPc = "loop"
    /\ overview = Absent
    /\ AfterStatsAtStart

\* for (const collectionName of collections) { try { await listDocuments ... } catch ... }
CollectionTurn(outcome) ==
    /\ statsPc = "loop"
    /\ Len(listed) < Len(listing)
    /\ LET name == listing[Len(listed) + 1]
       IN  collectionStats' = AfterListDocuments(collectionStats, name, outcome)
    /\ listed' = Append(listed, outcome)
    /\ UNCHANGED <<chunkingVars, cacheVars, loggingVars, afterStatsVars, listing, statsPc, overview>>

\* after the loop: the counts, the sort and responseData
ComputeStatistics ==
    /\ statsPc = "loop"
    /\ Len(listed) = Len(listing)
    /\ overview' = Some(ResponseStats(listing, collectionStats))
    /\ collectionStats' = SortByCountDesc(collectionStats)
    /\ statsPc' = "done"
    /\ UNCHANGED <<chunkingVars, cacheVars, loggingVars, afterStatsVars, listing, listed>>

StatsNext ==
    \/ \E outcome \in ListDocumentsOutcomes : CollectionTurn(outcome)
    \/ ComputeStatistics

StatsSpec == StatsInit /\ [][StatsNext]_vars

---------------------------------------------------------------------------
(* One call of batchAddDocuments: a step where the call for a document is    *)
(* made and a step where it settles                                          *)

BatchInit ==
    /\ ChunkingAtRest
    /\ CacheAtStart
    /\ LoggingAtStart
    /\ StatsAtStart
    /\ batchDocs \in BatchInputs
    /\ batchPc = "loop"
    /\ batchPos = 1
    /\ attempts = <<>>
    /\ results = <<>>
    /\ errors = <<>>
    /\ batchReturn = Absent
    /\ FetchAtStart

beforeBatchVars == <<chunkingVars, cacheVars, loggingVars, statsVars>>

\* the head of the loop: destructuring a null element throws; otherwise the
\* document is prepared and addOrUpdateDocument is called
BatchSend ==
    /\ batchPc = "loop"
    /\ batchPos <= Len(batchDocs)
    /\ IF batchDocs[batchPos] = Null
       THEN /\ batchPc' = "thrown"
            /\ UNCHANGED attempts
       ELSE /\ batchPc' = "awaiting"
            /\ attempts' = Append(attempts, Attempt(batchDocs[batchPos]))
    /\ UNCHANGED <<beforeBatchVars, afterBatchVars, batchDocs, batchPos, results, errors, batchReturn>>

\* addOrUpdateDocument settles: it returns success or failure and never throws
BatchSettle(ok) ==
    /\ batchPc = "awaiting"
    /\ IF ok
       THEN /\ results' = Append(results, [added |-> batchDocs[batchPos].id])
            /\ UNCHANGED errors
       ELSE /\ errors' = Append(errors, [document |-> batchDocs[batchPos],
                                         error |-> "error.message"])
            /\ UNCHANGED results
    /\ batchPos' = NextPosition(batchPos, ok, Len(batchDocs))
    /\ batchPc' = "loop"
    /\ UNCHANGED <<beforeBatchVars, afterBatchVars, batchDocs, attempts, batchReturn>>

\* after the loop
BatchReturns ==
    /\ batchPc = "loop"
    /\ batchPos > Len(batchDocs)
    /\ batchReturn' = Some(BatchResult(results, errors))
    /\ batchPc' = "returned"
    /\ UNCHANGED <<beforeBatchVars, afterBatchVars, batchDocs, batchPos, attempts, results, errors>>

BatchNext ==
    \/ BatchSend
    \/ \E ok \in BOOLEAN : BatchSettle(ok)
    \/ BatchReturns

BatchSpec == BatchInit /\ [][BatchNext]_vars

---------------------------------------------------------------------------
(* One url-fetch request; the call of createChunkedDocuments it makes runs   *)
(* the actions of ChunkingService                                            *)

FetchInit ==
    /\ ChunkingAtRest
    /\ CacheAtStart
    /\ LoggingAtStart
    /\ StatsAtStart
    /\ BatchAtStart
    /\ fetchReq \in FetchRequests
    /\ fetched = NoFetchResult
    /\ fetchPc = "start"
    /\ documentsToCreate = <<>>
    /\ sent = Absent
    /\ fetchResponse = NoFetchResponse

beforeFetchVars == <<cacheVars, loggingVars, statsVars, batchVars>>

chunkingLocals == <<strategy, chunkSize, overlap, startIndex, chunkIndex, chunks, windows,
                    estimate, documents, log>>

\* the validation of the request, then the call of fetchURL (a collection
\* name and a url are always given here)
FetchStart ==
    /\ fetchPc = "start"
    /\ IF fetchReq.baseId = <<>>
       THEN /\ fetchResponse' = [NoFetchResponse EXCEPT !.status = 400,
                                                        !.error = RequiredError]
            /\ fetchPc' = "responded"
       ELSE /\ fetchPc' = "fetching"
            /\ UNCHANGED fetchResponse
    /\ UNCHANGED <<chunkingVars, beforeFetchVars, fetchReq, fetched, documentsToCreate, sent>>

\* step 3 of the route up to its await: 400 for no documents, otherwise the
\* call of batchAddDocuments
AddOrRefuse(docs) ==
    IF Len(docs) = 0
    THEN /\ fetchResponse' = [NoFetchResponse EXCEPT !.status = 400, !.error = NoContentError]
         /\ fetchPc' = "responded"
         /\ UNCHANGED sent
    ELSE /\ sent' = Some(SentDocuments(docs))
         /\ fetchPc' = "adding"
         /\ UNCHANGED fetchResponse

\* fetchURL settles; the route goes on to its next await or to its response
FetchSettles(result) ==
    /\ fetchPc = "fetching"
    /\ fetched' = result
    /\ IF ~result.success
       THEN /\ fetchResponse' = [NoFetchResponse EXCEPT !.status = 400,
                                                        !.error = "fetchResult.error"]
            /\ fetchPc' = "responded"
            /\ UNCHANGED <<chunkingVars, documentsToCreate, sent>>
       ELSE IF result.type = "csv" /\ Len(result.documents) > 0
       THEN /\ documentsToCreate' = RowDocuments(fetchReq, result)
            /\ AddOrRefuse(RowDocuments(fetchReq, result))
            /\ UNCHANGED chunkingVars
       ELSE IF fetchReq.enableChunking /\ result.text # <<>>
       THEN /\ op' = "createChunkedDocuments"
            /\ baseId' = fetchReq.baseId
            /\ text' = result.text
            /\ options' = fetchReq.chunkingOptions
            /\ baseMetadata' = Spread(fetchReq.baseMetadata, result.metadata)
            /\ pc' = "call"
            /\ fetchPc' = "chunking"
            /\ UNCHANGED <<chunkingLocals, documentsToCreate, sent, fetchResponse>>
       ELSE /\ documentsToCreate' = SingleDocument(fetchReq, result)
            /\ AddOrRefuse(SingleDocument(fetchReq, result))
            /\ UNCHANGED chunkingVars
    /\ UNCHANGED <<beforeFetchVars, fetchReq>>

\* createChunkedDocuments has returned
FetchAfterChunking ==
    /\ fetchPc = "chunking"
    /\ pc = "done"
    /\ documentsToCreate' = FromChunkedDocuments(documents)
    /\ AddOrRefuse(FromChunkedDocuments(documents))
    /\ UNCHANGED <<chunkingVars, beforeFetchVars, fetchReq, fetched>>

\* batchAddDocuments settles
FetchBatchSettles(ok) ==
    /\ fetchPc = "adding"
    /\ fetchResponse' =
          IF ok THEN [NoFetchResponse EXCEPT !.status = 201, !.success = TRUE,
                                             !.documentsCreated = Len(documentsToCreate)]
          ELSE [NoFetchResponse EXCEPT !.status = 500, !.error = "batchResult.error"]
    /\ fetchPc' = "responded"
    /\ UNCHANGED <<chunkingVars, beforeFetchVars, fetchReq, fetched, documentsToCreate, sent>>

FetchNext ==
    \/ FetchStart
    \/ \E result \in FetchResults : FetchSettles(result)
    \/ ChunkTextSemantic
    \/ ConfigurableChunkEnter
    \/ LoopIteration
    \/ CreateChunkedDocumentsMap
    \/ FetchAfterChunking
    \/ \E ok \in BOOLEAN : FetchBatchSettles(ok)

FetchSpec == FetchInit /\ [][FetchNext]_vars

---------------------------------------------------------------------------
(* Vocabulary of the claims: the documented meaning of the options *)

\* the value the documentation gives an option: the caller's value when
\* supplied, the default only when absent
DocumentedChunkSize(o) == IF o.chunkSize = Absent THEN DefaultChunkSize ELSE o.chunkSize[1]
DocumentedOverlap(o) == IF o.overlap = Absent THEN DefaultOverlap ELSE o.overlap[1]

\* the documented domain: chunkSize positive, 0 <= overlap < chunkSize
ValidOptions ==
    /\ DocumentedChunkSize(options) >= 1
    /\ DocumentedOverlap(options) >= 0
    /\ DocumentedOverlap(options) < DocumentedChunkSize(options)

\* mode "configurable", given or by default
ConfigurableMode == options.mode \in {Absent, Some("configurable")}
SemanticMode == options.mode = Some("semantic")

NonBlankText == \E i \in 1..Len(text) : text[i] \notin Whitespace
BlankText == \A i \in 1..Len(text) : text[i] \in Whitespace

\* text[a : b], 0-based and b exclusive, for 0 <= a <= b <= length
Slice(s, a, b) == [i \in 1..(b - a) |-> s[a + i]]

\* the characters of the window taken by iteration k
WindowText(k) == Substring(text, windows[k].start, windows[k].end)

IndicesFromZero == \A i \in 1..Len(chunks) : chunks[i].index = i - 1

---------------------------------------------------------------------------
(* C1 *)

\* C1: for every non-blank text and every configurable option set with
\* 0 <= overlap < chunkSize, chunkText terminates and returns N >= 1 chunks
\* whose indices are exactly 0..N-1.  The loop's next step is a function of
\* startIndex alone (text and options are fixed), so the call returns only if
\* the loop never stands again at a window start it has already used; a finite
\* run refutes termination by reaching such a state.
C1_Terminates ==
    (op = "chunkText" /\ ConfigurableMode /\ ValidOptions /\ NonBlankText) =>
        /\ pc = "loop" => \A k \in 1..Len(windows) : windows[k].start # startIndex
        /\ pc = "returned" => (Len(chunks) >= 1 /\ IndicesFromZero)

(* C2 *)

\* C2: in configurable mode with overlap < chunkSize the window start strictly
\* increases from one iteration to the next: the next start is the previous
\* end minus overlap, which is the previous start plus chunkSize - overlap
\* after a full-width window, and no two iterations use the same start.
C2_WindowStartAdvances ==
    (ConfigurableMode /\ ValidOptions) =>
        /\ \A i \in 1..(Len(windows) - 1) :
              /\ windows[i + 1].start = windows[i].end - DocumentedOverlap(options)
              /\ windows[i + 1].start > windows[i].start
              /\ (windows[i].end - windows[i].start = DocumentedChunkSize(options)
                    => windows[i + 1].start = windows[i].start
                          + (DocumentedChunkSize(options) - DocumentedOverlap(options)))
        /\ \A i, j \in 1..Len(windows) : i # j => windows[i].start # windows[j].start

(* C3 *)

NonBlankWindow(k) == Len(Trim(WindowText(k))) > 0

\* C3: at every point of a chunking operation, in both modes, the chunk at
\* position i of the output carries index i (counting from 0), and a
\* configurable window that trims to empty is skipped without using up an
\* index: the index counter equals the number of chunks emitted, which is the
\* number of windows that did not trim to empty.
C3_IndicesContiguous ==
    /\ IndicesFromZero
    /\ strategy = "configurable" =>
          /\ chunkIndex = Len(chunks)
          /\ Len(chunks) = Cardinality({k \in 1..Len(windows) : NonBlankWindow(k)})

C3_Witness ==
    /\ strategy = "configurable"
    /\ Len(chunks) >= 2
    /\ \E k, m \in 1..Len(windows) :
          k < m /\ NonBlankWindow(1) /\ ~NonBlankWindow(k) /\ NonBlankWindow(m)

(* C4 *)

\* C4: for an empty or all-whitespace text chunkText returns the empty
\* sequence, in semantic and in configurable mode, for every option set.
C4_BlankGivesEmpty ==
    (BlankText /\ CallsChunkText /\ pc # "call")
        => (pc \in {"returned", "done"} /\ chunks = <<>>)

C4_Witness ==
    /\ op = "chunkText"
    /\ Len(text) >= 2
    /\ BlankText
    /\ pc = "returned"
    /\ chunks = <<>>

(* C5 *)

\* position k lies in a run of two or more newlines
InBreak(s, k) ==
    /\ s[k] = "\n"
    /\ \/ (k > 1 /\ s[k - 1] = "\n")
       \/ (k < Len(s) /\ s[k + 1] = "\n")

\* the maximal stretches <<i, j>> of s that no such run touches
Segments(s) ==
    {seg \in (1..Len(s)) \X (1..Len(s)) :
        /\ seg[1] <= seg[2]
        /\ \A k \in seg[1]..seg[2] : ~InBreak(s, k)
        /\ (seg[1] = 1 \/ InBreak(s, seg[1] - 1))
        /\ (seg[2] = Len(s) \/ InBreak(s, seg[2] + 1))}

KeptSegments(s) == {seg \in Segments(s) : Len(Trim(SubSeq(s, seg[1], seg[2]))) > 0}

\* C5: in semantic mode, for a non-blank text, chunkText returns exactly the
\* non-empty trimmed segments between runs of two or more newlines, in their
\* order in the text, with indices 0, 1, 2, ...; a text without such a run
\* gives the single chunk (trimmed text, 0).
C5_SemanticParagraphs ==
    (SemanticMode /\ NonBlankText /\ CallsChunkText /\ pc # "call") =>
        LET kept == KeptSegments(text)
        IN  /\ pc \in {"returned", "done"}
            /\ Len(chunks) = Cardinality(kept)
            /\ \A seg \in kept :
                  LET k == 1 + Cardinality({t \in kept : t[1] < seg[1]})
                  IN  chunks[k] = [text |-> Trim(SubSeq(text, seg[1], seg[2])),
                                   index |-> k - 1]
            /\ ((\A k \in 1..Len(text) : ~InBreak(text, k))
                  => chunks = <<[text |-> Trim(text), index |-> 0]>>)

C5_Witness ==
    /\ SemanticMode
    /\ op = "chunkText"
    /\ pc = "returned"
    /\ \E k \in 1..Len(text) : InBreak(text, k)
    /\ Len(chunks) = 2
    /\ chunks[2].index = 1

(* C6 *)

\* the iteration that emitted chunk i: the i-th window that did not trim to
\* empty
EmittedBy(i, k) ==
    /\ NonBlankWindow(k)
    /\ Cardinality({m \in 1..k : NonBlankWindow(m)}) = i

\* C6: in configurable mode every emitted chunk is the trimmed content of one
\* window text[start : min(start + chunkSize, length)] with
\* 0 <= start < length, the first window starts at 0, and so every chunk is
\* non-empty, has no whitespace at either end and is at most chunkSize long.
C6_ChunkIsTrimmedWindow ==
    (ConfigurableMode /\ ValidOptions) =>
        /\ (Len(windows) >= 1 => windows[1].start = 0)
        /\ \A i \in 1..Len(chunks) :
              /\ Len(chunks[i].text) >= 1
              /\ Len(chunks[i].text) <= DocumentedChunkSize(options)
              /\ Head(chunks[i].text) \notin Whitespace
              /\ chunks[i].text[Len(chunks[i].text)] \notin Whitespace
              /\ \E k \in 1..Len(windows) :
                    /\ EmittedBy(i, k)
                    /\ 0 <= windows[k].start
                    /\ windows[k].start < Len(text)
                    /\ chunks[i].text =
                          Trim(Slice(text, windows[k].start,
                                     Min(windows[k].start + DocumentedChunkSize(options),
                                         Len(text))))

(* C7 *)

\* the last n characters of w (all of w when it is shorter)
LastN(w, n) == SubSeq(w, Max(1, Len(w) - n + 1), Len(w))

IsPrefix(p, w) == Len(p) <= Len(w) /\ SubSeq(w, 1, Len(p)) = p

\* C7: in configurable mode, for consecutive windows w[i], w[i+1] (before
\* trimming), the last `overlap` characters of w[i] are a prefix of w[i+1].
C7_OverlapIsPrefix ==
    (ConfigurableMode /\ ValidOptions) =>
        \A i \in 1..(Len(windows) - 1) :
            IsPrefix(LastN(WindowText(i), DocumentedOverlap(options)), WindowText(i + 1))

C7_Witness ==
    /\ ConfigurableMode
    /\ ValidOptions
    /\ DocumentedOverlap(options) >= 1
    /\ Len(windows) >= 2
    /\ windows[1].start # windows[2].start
    /\ Len(WindowText(1)) > DocumentedOverlap(options)
    /\ WindowText(1) # WindowText(2)
    /\ \E i \in 1..Len(WindowText(1)) : WindowText(1)[i] # "a"

(* C8 *)

\* C8: in configurable mode the chunkSize and overlap that chunkText and
\* estimateChunks work with are the caller's values whenever supplied,
\* overlap = 0 included (consecutive windows then share no characters), and
\* the defaults 500 and 50 only when the option is absent.
C8_SuppliedValuesUsed ==
    (ConfigurableMode /\ DocumentedOverlap(options) >= 0) =>
        /\ (CallsChunkText /\ pc # "call") =>
              /\ chunkSize = DocumentedChunkSize(options)
              /\ overlap = DocumentedOverlap(options)
              /\ (DocumentedOverlap(options) = 0 =>
                    \A i \in 1..(Len(windows) - 1) : windows[i + 1].start >= windows[i].end)
        /\ (op = "estimateChunks" /\ pc = "done" /\ NonBlankText) =>
              /\ chunkSize = DocumentedChunkSize(options)
              /\ overlap = DocumentedOverlap(options)

(* C9 *)

\* C9: with options.mode absent or any value other than "semantic", chunkText
\* takes the configurable branch and estimateChunks returns what it returns
\* for mode "configurable" with the same text, chunkSize and overlap.
C9_DefaultsToConfigurable ==
    (~SemanticMode) =>
        /\ (CallsChunkText /\ pc # "call") => strategy = "configurable"
        /\ (op = "estimateChunks" /\ pc = "done") =>
              estimate = Some(EstimateChunks(text,
                                 [options EXCEPT !.mode = Some("configurable")]))

C9_Witness ==
    /\ options.mode = Some("other")
    /\ op = "chunkText"
    /\ pc = "loop"
    /\ Len(chunks) >= 1

(* C10 *)

\* C10: every document's metadata.chunk_mode is "semantic" or "configurable"
\* and names the branch chunkText took to produce it.
C10_ChunkModeNamesStrategy ==
    \A i \in 1..Len(documents) :
        /\ documents[i].metadata["chunk_mode"] \in {Some("semantic"), Some("configurable")}
        /\ documents[i].metadata["chunk_mode"] = Some(strategy)

(* C11 *)

CreateReturned == op = "createChunkedDocuments" /\ pc = "done"

\* C11: createChunkedDocuments returns one document per chunk of chunkText,
\* in the same order and with the same text; every document's total_chunks is
\* that number of chunks; a text that gives no chunks gives no documents.
C11_OneDocumentPerChunk ==
    CreateReturned =>
        /\ Len(documents) = Len(chunks)
        /\ \A i \in 1..Len(documents) :
              /\ documents[i].text = chunks[i].text
              /\ documents[i].metadata["total_chunks"] = Some(Len(chunks))
        /\ (BlankText => documents = <<>>)

C11_Witness ==
    /\ CreateReturned
    /\ Len(documents) >= 2
    /\ documents[1].text # documents[2].text

(* C12 *)

\* C12: the document made from the chunk with index k has
\* id = baseId + "_chunk_" + (k+1), parent_doc_id = baseId and
\* chunk_index = k+1; so the ids of one call are pairwise distinct and
\* chunk_index runs over 1..total_chunks without gaps.
C12_LineageIds ==
    CreateReturned =>
        /\ \A i \in 1..Len(documents) :
              LET k == chunks[i].index
              IN  /\ documents[i].id = baseId \o ChunkInfix \o Decimal(k + 1)
                  /\ documents[i].metadata["parent_doc_id"] = Some(baseId)
                  /\ documents[i].metadata["chunk_index"] = Some(k + 1)
        /\ \A i, j \in 1..Len(documents) : i # j => documents[i].id # documents[j].id
        /\ {documents[i].metadata["chunk_index"][1] : i \in 1..Len(documents)}
              = 1..Len(documents)

C12_Witness ==
    /\ CreateReturned
    /\ Len(documents) >= 2
    /\ documents[2].id = <<"d", "o", "c", "1", "_", "c", "h", "u", "n", "k", "_", "2">>

(* C13 *)

\* every document carries the fields of baseMetadata that are no lineage
\* field unchanged, and the four lineage fields with the values the service
\* computes (line 154 for chunk_mode), whatever baseMetadata says for them
MetadataMerged ==
    \A i \in 1..Len(documents) :
        LET md == documents[i].metadata
        IN  /\ DOMAIN md = (DOMAIN baseMetadata) \cup LineageFields
            /\ \A k \in (DOMAIN baseMetadata) \ LineageFields : md[k] = Some(baseMetadata[k])
            /\ md["parent_doc_id"] = Some(baseId)
            /\ md["chunk_index"] = Some(i)
            /\ md["total_chunks"] = Some(Len(documents))
            /\ md["chunk_mode"] = IF options.mode = Absent THEN Some("configurable")
                                  ELSE options.mode

\* C13: in every document each baseMetadata field that is no lineage field
\* appears unchanged, a baseMetadata field with a lineage name is overwritten
\* by the lineage value, and the caller's baseMetadata is not modified.
C13_BaseMetadataMerged == [][MetadataMerged' /\ baseMetadata' = baseMetadata]_vars

C13_Witness ==
    /\ CreateReturned
    /\ Len(documents) >= 1
    /\ "chunk_mode" \in DOMAIN baseMetadata
    /\ "source" \in DOMAIN baseMetadata

(* C14 *)

EstimateReturned == op = "estimateChunks" /\ pc = "done"

\* C14: in semantic mode estimateChunks(text) is the length of
\* chunkText(text): 0 for a blank text, otherwise the number of non-empty
\* trimmed paragraphs, at least 1.
C14_SemanticEstimateExact ==
    (EstimateReturned /\ SemanticMode) =>
        /\ estimate = Some(Len(SemanticChunk(text)))
        /\ estimate = Some(IF BlankText THEN 0
                           ELSE Max(1, Cardinality(KeptSegments(text))))

C14_Witness ==
    /\ EstimateReturned
    /\ SemanticMode
    /\ estimate = Some(2)

(* C15 *)

\* C15: in configurable mode with overlap < chunkSize estimateChunks returns
\* 0 for a blank text, 1 when length <= chunkSize, and otherwise
\* ceil((length - chunkSize) / (chunkSize - overlap)) + 1.
C15_ConfigurableEstimateFormula ==
    (EstimateReturned /\ ConfigurableMode /\ ValidOptions) =>
        LET size == DocumentedChunkSize(options)
            step == size - DocumentedOverlap(options)
        IN  estimate = Some(IF BlankText THEN 0
                            ELSE IF Len(text) <= size THEN 1
                            ELSE (Len(text) - size + step - 1) \div step + 1)

(* C16 *)

ScenarioE ==
    /\ EstimateReturned
    /\ Len(text) = 1000
    /\ NonBlankText
    /\ options = [mode |-> Some("configurable"), chunkSize |-> Some(500),
                  overlap |-> Some(50)]

\* C16 as claimed: estimateChunks on a non-blank text of length 1000 with
\* mode "configurable", chunkSize 500 and overlap 50 returns 2.
C16_ScenarioEReturnsTwo == ScenarioE => estimate = Some(2)

\* C16 as amended: that call returns 3 = ceil((1000 - 500) / 450) + 1.
C16_ScenarioEReturnsThree == ScenarioE => estimate = Some(3)

C16_Witness == ScenarioE

(* C17 *)

\* C17: in configurable mode with overlap < chunkSize, estimateChunks is an
\* upper bound on the number of chunks of chunkText and exceeds it by at most
\* one.  The chunks collected so far never outnumber the chunks returned, so
\* they never outnumber the estimate either.
C17_EstimateBoundsChunks ==
    (CallsChunkText /\ pc # "call" /\ ConfigurableMode /\ ValidOptions) =>
        /\ Len(chunks) <= EstimateChunks(text, options)
        /\ (pc \in {"returned", "done"}
              => EstimateChunks(text, options) <= Len(chunks) + 1)

(* C18 *)

DocumentedMode == options.mode \in {Absent, Some("semantic"), Some("configurable")}

\* C18: chunkText, estimateChunks and createChunkedDocuments return a value
\* and never raise for any text and any options in their documented domain.
\* A call that returns never stands twice at the same window start (the
\* loop's next step is a function of startIndex alone), and the value
\* estimateChunks returns is a count.
C18_AlwaysReturns ==
    (DocumentedMode /\ ValidOptions) =>
        /\ pc = "loop" => \A k \in 1..Len(windows) : windows[k].start # startIndex
        /\ EstimateReturned => estimate[1] \in Nat

(* C19 *)

SameCall(e) == e.text = text /\ e.options = options

\* C19: chunkText is deterministic and stateless: a call returns the same
\* sequence (texts and indices) as every earlier call with the same text and
\* options, whatever other calls were made on the shared instance before or
\* between them.
C19_Deterministic ==
    /\ \A i, j \in 1..Len(log) :
          (log[i].text = log[j].text /\ log[i].options = log[j].options)
             => log[i].result = log[j].result
    /\ pc = "returned" => \A i \in 1..Len(log) : SameCall(log[i]) => log[i].result = chunks

C19_Witness ==
    /\ pc = "returned"
    /\ Len(log) = 2
    /\ SameCall(log[1])
    /\ ~SameCall(log[2])
    /\ log[2].result # <<>>
    /\ Len(chunks) >= 1
    /\ strategy = "configurable"

(* C20 *)

\* cached data exists and was stored less than 5 hours ago
Fresh ==
    /\ analyticsCache.data # Absent
    /\ analyticsCache.timestamp # Absent
    /\ now < analyticsCache.timestamp[1] + CACHE_DURATION_MS

\* this step answers request r from the cache
AnswersFromCache(r) ==
    /\ lastResponse' # lastResponse
    /\ lastResponse'.route = "overview"
    /\ lastResponse'.req = r
    /\ lastResponse'.cached

\* this step starts the upstream reading for request r
StartsRecompute(r) == reqs[r].pc = "idle" /\ reqs'[r].pc = "listCollections"

\* this step sends request r the answer it computed
AnswersComputed(r) ==
    /\ lastResponse' # lastResponse
    /\ lastResponse'.route = "overview"
    /\ lastResponse'.req = r
    /\ lastResponse'.status = 200
    /\ ~lastResponse'.cached

OverviewStep(r) ==
    /\ AnswersFromCache(r) =>
          /\ lastResponse'.refresh # Some("true")
          /\ Fresh
          /\ lastResponse'.upstream = 0
          /\ lastResponse'.data = analyticsCache.data
          /\ analyticsCache' = analyticsCache
    /\ StartsRecompute(r) =>
          /\ reqs'[r].refresh = Some("true") \/ ~Fresh
          /\ reqs'[r].upstream >= 1
    /\ AnswersComputed(r) =>
          /\ lastResponse'.upstream >= 1
          /\ analyticsCache'.data = lastResponse'.data
          /\ analyticsCache'.timestamp = Some(now)
          /\ analyticsCache'.expiresAt = Some(now + CACHE_DURATION_MS)
          /\ lastResponse'.cacheExpiresAt = analyticsCache'.expiresAt

\* the answer sent last, when it came from the cache, carries data stored less
\* than 5 hours before it was sent
CachedAnswerIsYoung ==
    (lastResponse.route = "overview" /\ lastResponse.cached)
       => /\ lastResponse.cacheTimestamp # Absent
          /\ lastResponse.at - lastResponse.cacheTimestamp[1] < CACHE_DURATION_MS

\* C20: GET /api/analytics/overview without refresh=true is answered from the
\* cache (cached: true, no upstream call) exactly when cached data exists and
\* the time is before the time it was stored plus 5 hours; otherwise, and
\* always with refresh=true, the upstream is read, and the overview computed
\* from it is stored with that expiry and answered cached: false. No answer
\* with cached: true carries data stored 5 hours or more earlier.
C20_CacheServesOnlyFresh ==
    [][(\A r \in Requests : OverviewStep(r)) /\ CachedAnswerIsYoung']_vars

\* a cached answer sent one millisecond before the entry expires, and a
\* recomputation started after the entry expired
C20_Witness ==
    /\ lastResponse.route = "overview"
    /\ lastResponse.cached
    /\ lastResponse.at - lastResponse.cacheTimestamp[1] = CACHE_DURATION_MS - 1
    /\ analyticsCache.data # Absent
    /\ now = analyticsCache.expiresAt[1]
    /\ \E r \in Requests : reqs[r].pc = "listCollections" /\ reqs[r].refresh # Some("true")

(* C21 *)

\* the clear was the last request answered and no overview is being computed
JustCleared ==
    /\ lastResponse.route = "cache/clear"
    /\ \A r \in Requests : reqs[r].pc = "idle"

\* C21: after POST /api/analytics/cache/clear has responded, with no overview
\* computation in flight, GET /api/analytics/cache/status reports cached =
\* false, valid = false and remainingTimeMs = 0, and the next GET
\* /api/analytics/overview is not answered from the cache: it reads the
\* upstream.
C21_ClearThenRecompute ==
    [][JustCleared =>
          /\ lastResponse'.route = "cache/status" =>
                /\ ~lastResponse'.cached
                /\ ~lastResponse'.valid
                /\ lastResponse'.remainingTimeMs = 0
          /\ lastResponse'.route # "overview"
          /\ \A r \in Requests : reqs'[r] # reqs[r] => StartsRecompute(r)]_vars

\* a clear dropped data stored at this very clock reading, and an overview
\* without refresh that started after it is reading the upstream
C21_Witness ==
    /\ lastResponse.route = "cache/clear"
    /\ lastResponse.dropped
    /\ ticks = 0
    /\ \E r \in Requests :
          /\ reqs[r].pc = "listCollections"
          /\ reqs[r].refresh = Absent
          /\ ~reqs[r].cleared

(* C23 *)

\* C23: under any interleaving of overview and cache-clear requests, no
\* overview request is answered cached: true from data whose upstream reading
\* began before a clear that had responded when the request started.
C23_NoPreClearDataServed ==
    (lastResponse.route = "overview" /\ lastResponse.cached)
       => ~lastResponse.data[1].preClear

(* C24 *)

CacheEmptyOrPopulated ==
    \/ analyticsCache = EmptyCache
    \/ /\ analyticsCache.data # Absent
       /\ analyticsCache.timestamp # Absent
       /\ analyticsCache.expiresAt = Some(analyticsCache.timestamp[1] + CACHE_DURATION_MS)

\* C24: the analytics cache is always either fully empty or fully populated
\* with expiresAt = timestamp + 5 hours, and it changes only in a step that
\* answers a computed overview or answers the clear endpoint.
C24_CacheShapeAndWriters ==
    [][/\ CacheEmptyOrPopulated
       /\ CacheEmptyOrPopulated'
       /\ analyticsCache' # analyticsCache =>
             \/ \E r \in Requests : AnswersComputed(r)
             \/ lastResponse'.route = "cache/clear"]_vars

\* another route answered, later than the storing, and the entry is still there
C24_Witness ==
    /\ lastResponse.route = "other"
    /\ analyticsCache.data # Absent
    /\ now > analyticsCache.timestamp[1]

(* C25 *)

\* this step ends request r because the upstream listing failed
ListingFails(r) == reqs[r].pc = "listCollections" /\ reqs'[r].pc = "idle"

\* C25: when the upstream collection listing fails during GET
\* /api/analytics/overview, with or without refresh=true, the answer is 500
\* with success: false and the cache is left as it was; a fresh entry is
\* still served to the next request without refresh=true.
C25_ListingFailureKeepsCache ==
    [][\A r \in Requests :
          /\ ListingFails(r) =>
                /\ lastResponse'.route = "overview"
                /\ lastResponse'.req = r
                /\ lastResponse'.status = 500
                /\ ~lastResponse'.success
                /\ analyticsCache' = analyticsCache
          /\ (lastResponse.status = 500 /\ Fresh /\ StartsRecompute(r)) =>
                reqs'[r].refresh = Some("true")]_vars

\* a refresh=true request was answered 500 while an entry stored earlier is
\* still fresh
C25_Witness ==
    /\ lastResponse.route = "overview"
    /\ lastResponse.status = 500
    /\ lastResponse.refresh = Some("true")
    /\ Fresh
    /\ now > analyticsCache.timestamp[1]

(* C22 *)

\* C22: after any sequence of log and clearLogs calls the store holds at most
\* 10,000 entries, newest first, and they are the most recent min(n, 10000)
\* entries logged since the store was last emptied (the notice that clearLogs
\* logs counted among them): a log call beyond the limit drops the oldest.
C22_StoreIsRecentWindow ==
    /\ Len(logs) <= 10000
    /\ Len(logs) = Min(logsSinceClear, 10000)
    /\ \A i \in 1..Len(logs) : logs[i].seq = logSeq + 1 - i

\* two log calls on a full store: each dropped the oldest entry
C22_Witness ==
    /\ Len(logs) = 10000
    /\ logsSinceClear = 10002
    /\ logReturn.op = "log"

(* C30 *)

\* this step is a call of clearLogs
ClearLogsStep == logReturn'.op = "clearLogs" /\ logCalls' # logCalls

ListingFailed(i) == listed[i] \in {"failure", "nullData"}

Occurrences(name) ==
    Cardinality({i \in 1..Len(overview[1].allCollections) :
                    overview[1].allCollections[i].name = name})

\* C26: in every overview computed, each collection name of the upstream
\* listing appears exactly once in allCollections, whose length is
\* totalCollections, and a collection whose document listing failed appears
\* with error: true and documentCount 0 and is counted in errorCollections,
\* not in emptyCollections.
C26_EveryCollectionListedOnce ==
    overview # Absent =>
       LET o == overview[1]
           failed == {i \in 1..Len(listing) : ListingFailed(i)}
       IN  /\ \A i \in 1..Len(listing) : Occurrences(listing[i]) = 1
           /\ Len(o.allCollections) = o.totalCollections
           /\ \A i \in failed :
                 \E k \in 1..Len(o.allCollections) :
                    /\ o.allCollections[k].name = listing[i]
                    /\ o.allCollections[k].error
                    /\ o.allCollections[k].documentCount = 0
           /\ o.errorCollections = Cardinality(failed)
           /\ o.emptyCollections =
                 Cardinality({i \in 1..Len(listing) : listed[i] = "ids0"})

(* C27 *)

\* every element of the input is a document
AllDocuments == \A i \in 1..Len(batchDocs) : batchDocs[i] # Null

\* C27: for an input of documents, batchAddDocuments attempts every document
\* once, in input order and one at a time, also after a failed one; on return
\* successful + failed is the number of input documents, results and errors
\* have those lengths, and success is true exactly when failed = 0.
C27_BatchAttemptsEveryDocument ==
    AllDocuments =>
       /\ Len(attempts) <= Len(batchDocs)
       /\ \A i \in 1..Len(attempts) : attempts[i].id = batchDocs[i].id
       /\ Len(attempts) - (Len(results) + Len(errors)) \in {0, 1}
       /\ batchReturn # Absent =>
             LET ret == batchReturn[1]
             IN  /\ Len(attempts) = Len(batchDocs)
                 /\ ret.successful + ret.failed = Len(batchDocs)
                 /\ Len(ret.results) = ret.successful
                 /\ Len(ret.errors) = ret.failed
                 /\ ret.success <=> (ret.failed = 0)

\* the first of two documents failed, the second was added
C27_Witness ==
    /\ AllDocuments
    /\ batchReturn # Absent
    /\ Len(batchDocs) = 2
    /\ batchReturn[1].failed = 1
    /\ batchReturn[1].successful = 1
    /\ batchReturn[1].errors[1].document = batchDocs[1]
    /\ ~batchReturn[1].success

(* C28 *)

\* the fetch succeeded and its content has no text: an empty body, or a CSV
\* without data rows
FetchedNoText ==
    /\ fetched.success
    /\ \/ fetched.type = "text" /\ fetched.text = <<>>
       \/ fetched.type = "csv" /\ Len(fetched.documents) = 0

\* C28: url-fetch never sends a document with empty text: when the fetched
\* content yields no text, with or without chunking, it responds 400 'No
\* content to create documents from' and makes no add call.
C28_NoEmptyDocumentSent ==
    /\ sent # Absent => \A i \in 1..Len(sent[1]) : sent[1][i].text # <<>>
    /\ FetchedNoText =>
          /\ sent = Absent
          /\ fetchPc = "responded" =>
                fetchResponse.status = 400 /\ fetchResponse.error = NoContentError

(* C29 *)

\* the request went through createChunkedDocuments and called batchAddDocuments
SentChunks == op = "createChunkedDocuments" /\ pc = "done" /\ sent # Absent

\* C29: with chunking enabled, each document sent to the database has the id
\* and the text of its own chunk as createChunkedDocuments produced it, for
\* every baseMetadata, also one with a field named text.
C29_ChunkKeepsItsText ==
    SentChunks =>
       /\ Len(sent[1]) = Len(documents)
       /\ \A i \in 1..Len(documents) :
             /\ sent[1][i].id = documents[i].id
             /\ sent[1][i].text = documents[i].text

====
